---- MODULE Spec2Model ----
(***************************************************************************)
(* Model of src/rust_web_server.rs: an actix-web server whose main()       *)
(* resolves the listening port from the PORT environment variable,         *)
(* initializes env_logger, binds 0.0.0.0:<port>, prints one announcement   *)
(* line and then serves GET "/" with the fixed body "Hello, world!".       *)
(***************************************************************************)
EXTENDS Integers, Sequences, FiniteSets, TLC

\* ------------------------------------------------------------------ bounds
MaxPortLen == 5      \* longest PORT value enumerated over PortChars
MaxRequests == 2     \* requests served in one run

\* --------------------------------------------------------------- constants
U16Max == 65535      \* `let port: u16`

InvalidByte == "0xFF"    \* a byte that is not valid UTF-8

\* characters a PORT value is built from: digits, signs, a letter
PortChars == {"0", "6", "+", "-", "a"}

Digits == <<"0", "1", "2", "3", "4", "5", "6", "7", "8", "9">>

IsDigit(c) == \E i \in 1..10 : Digits[i] = c

DigitVal(c) == (CHOOSE i \in 1..10 : Digits[i] = c) - 1

\* a mistyped default: "8000"
DefaultPortStringTypo == <<"8", "0", "0", "0">>

\* "8080".to_string()
DefaultPortString == <<"8", "0", "8", "0">>

\* PORT values beyond the enumerated alphabet: the default, the u16 edge,
\* one past it, a leading space, the 9090 of the end-to-end scenario, and
\* values holding a byte that is not valid UTF-8
SpecialValues ==
    { DefaultPortString,
      <<"6", "5", "5", "3", "5">>,
      <<"6", "5", "5", "3", "6">>,
      <<" ", "8", "0">>,
      <<"9", "0", "9", "0">>,
      <<InvalidByte>>,
      <<"9", "0", InvalidByte>>,
      <<InvalidByte, "a">> }

SeqsUpTo(S, n) == UNION { [1..k -> S] : k \in 0..n }

PortValues == SeqsUpTo(PortChars, MaxPortLen) \cup SpecialValues

\* the process environment as far as main() reads it
Environments ==
    { [present |-> FALSE, value |-> <<>>] }
      \cup { [present |-> TRUE, value |-> v] : v \in PortValues }

Ok(v) == [ok |-> TRUE, val |-> v, err |-> "none"]

Err(e) == [ok |-> FALSE, val |-> 0, err |-> e]

IsUnicode(s) == \A i \in 1..Len(s) : s[i] # InvalidByte

\* std::env::var("PORT"): Err when the variable is unset or not valid Unicode
EnvVar(e) ==
    IF ~e.present THEN Err("NotPresent")
    ELSE IF ~IsUnicode(e.value) THEN Err("NotUnicode")
    ELSE [ok |-> TRUE, val |-> e.value, err |-> "none"]

\* .unwrap_or_else(|_| "8080".to_string())
UnwrapOrDefault(r) == IF r.ok THEN r.val ELSE DefaultPortString

RECURSIVE ParseDigits(_, _)
\* the digit loop of u16::from_str: checked multiply and add
ParseDigits(ds, acc) ==
    IF ds = <<>> THEN Ok(acc)
    ELSE LET c == Head(ds) IN
         IF ~IsDigit(c) THEN Err("InvalidDigit")
         ELSE IF acc * 10 > U16Max THEN Err("PosOverflow")
         ELSE IF acc * 10 + DigitVal(c) > U16Max THEN Err("PosOverflow")
         ELSE ParseDigits(Tail(ds), acc * 10 + DigitVal(c))

\* str::parse::<u16>(): optional leading '+', then decimal digits
ParseU16(s) ==
    IF s = <<>> THEN Err("Empty")
    ELSE IF Len(s) = 1 /\ Head(s) \in {"+", "-"} THEN Err("InvalidDigit")
    ELSE IF Head(s) = "+" THEN ParseDigits(Tail(s), 0)
    ELSE ParseDigits(s, 0)

RECURSIVE Display(_)
\* the {} formatting of a u16: decimal, no sign, no leading zeros
Display(n) ==
    IF n < 10 THEN <<Digits[n + 1]>>
    ELSE Append(Display(n \div 10), Digits[(n % 10) + 1])

\* ---------------------------------------------------------------- requests
Methods == {"GET", "POST"}

\* request targets as token sequences; "?" starts the query string
Uris == { <<"/">>, <<"/", "?", "a=1">>, <<"/", "x">>, <<"/", "x", "?", "a=1">> }

HeaderSets == { {}, {"Accept: text/html", "X-Forwarded-For: 10.0.0.1"} }

Requests == [method : Methods, uri : Uris, headers : HeaderSets]

\* routing on the whole request target, query string included
PathKeepsQuery(uri) == uri

RECURSIVE Path(_)
\* the path of a request target: everything before the first "?"
Path(uri) ==
    IF uri = <<>> \/ Head(uri) = "?" THEN <<>>
    ELSE <<Head(uri)>> \o Path(Tail(uri))

\* async fn index(): HttpResponse::Ok().body("Hello, world!")
index == [status |-> 200, body |-> "Hello, world!"]

\* App::new().route("/", web::get().to(index)); anything else gets the
\* framework's default response
Responses(req) ==
    IF Path(req.uri) = <<"/">> /\ req.method = "GET" THEN { index }
    ELSE IF Path(req.uri) = <<"/">>
         THEN { [status |-> 404, body |-> ""], [status |-> 405, body |-> ""] }
    ELSE { [status |-> 404, body |-> ""] }

\* ------------------------------------------------------------------- state
NoPort == -1

NoListener == [host |-> "", port |-> NoPort]

NoRequest == [method |-> "", uri |-> <<>>, headers |-> {}]

NoResponse == [status |-> 0, body |-> ""]

\* ports the operating system hands out for a bind on port 0
EphemeralPorts == {32768, 60999}

VARIABLES
    env,           \* the PORT variable of the process environment
    pc,            \* position of main()
    port,          \* `let port: u16`
    loggerInits,   \* number of env_logger::init() calls made
    bindAttempts,  \* addresses passed to bind, in order
    listener,      \* the address the listening socket is bound to
    stdout,        \* lines printed to standard output
    failure,       \* how startup failed: "none", "config", "logger" or "bind"
    served,        \* number of requests answered
    lastReq,       \* the request answered last
    lastResp       \* the response given to it

vars == <<env, pc, port, loggerInits, bindAttempts, listener, stdout,
          failure, served, lastReq, lastResp>>

Init ==
    /\ env \in Environments
    /\ pc = "start"
    /\ port = NoPort
    /\ loggerInits = 0
    /\ bindAttempts = <<>>
    /\ listener = NoListener
    /\ stdout = <<>>
    /\ failure = "none"
    /\ served = 0
    /\ lastReq = NoRequest
    /\ lastResp = NoResponse

\* lines 10-13: env::var("PORT").unwrap_or_else(..).parse().expect(..)
ResolvePort ==
    /\ pc = "start"
    /\ LET r == ParseU16(UnwrapOrDefault(EnvVar(env))) IN
         IF r.ok
         THEN /\ port' = r.val
              /\ pc' = "logger"
              /\ failure' = failure
         ELSE /\ port' = port
              /\ pc' = "panicked"
              /\ failure' = "config"
    /\ UNCHANGED <<env, loggerInits, bindAttempts, listener, stdout,
                   served, lastReq, lastResp>>

\* the logger set up a second time in the same statement
InitLoggerTwice ==
    /\ pc = "logger"
    /\ loggerInits' = loggerInits + 2
    /\ pc' = "bind"
    /\ UNCHANGED <<env, port, bindAttempts, listener, stdout, failure,
                   served, lastReq, lastResp>>

\* a logger installed earlier makes env_logger::init() panic
InitLoggerPanics ==
    /\ pc = "logger"
    /\ loggerInits' = loggerInits
    /\ pc' = "panicked"
    /\ failure' = "logger"
    /\ UNCHANGED <<env, port, bindAttempts, listener, stdout,
                   served, lastReq, lastResp>>

\* line 16: env_logger::init(), which panics when a logger is already set
InitLogger ==
    /\ pc = "logger"
    /\ IF loggerInits = 0
       THEN /\ loggerInits' = loggerInits + 1
            /\ pc' = "bind"
            /\ failure' = failure
       ELSE /\ loggerInits' = loggerInits
            /\ pc' = "panicked"
            /\ failure' = "logger"
    /\ UNCHANGED <<env, port, bindAttempts, listener, stdout,
                   served, lastReq, lastResp>>

\* bind on the loopback interface instead of all interfaces
BindOkLoopback ==
    /\ pc = "bind"
    /\ bindAttempts' = Append(bindAttempts, [host |-> "127.0.0.1", port |-> port])
    /\ \E p \in (IF port = 0 THEN EphemeralPorts ELSE {port}) :
         listener' = [host |-> "127.0.0.1", port |-> p]
    /\ pc' = "announce"
    /\ UNCHANGED <<env, port, loggerInits, stdout, failure,
                   served, lastReq, lastResp>>

\* lines 19-24: HttpServer::new(..).bind(("0.0.0.0", port))?.run(), bind succeeds
BindOk ==
    /\ pc = "bind"
    /\ bindAttempts' = Append(bindAttempts, [host |-> "0.0.0.0", port |-> port])
    /\ \E p \in (IF port = 0 THEN EphemeralPorts ELSE {port}) :
         listener' = [host |-> "0.0.0.0", port |-> p]
    /\ pc' = "announce"
    /\ UNCHANGED <<env, port, loggerInits, stdout, failure,
                   served, lastReq, lastResp>>

\* a failed bind is tried once more before giving up
BindFailRetry ==
    /\ pc = "bind"
    /\ bindAttempts' = Append(bindAttempts, [host |-> "0.0.0.0", port |-> port])
    /\ IF Len(bindAttempts) = 0
       THEN /\ failure' = failure
            /\ pc' = "bind"
       ELSE /\ failure' = "bind"
            /\ pc' = "exited_err"
    /\ UNCHANGED <<env, port, loggerInits, listener, stdout,
                   served, lastReq, lastResp>>

\* the announcement printed ahead of the bind, so a failed bind follows it
BindFailAfterAnnounce ==
    /\ pc = "bind"
    /\ stdout' = Append(stdout, [text |-> "Server running at http://",
                                 host |-> "0.0.0.0",
                                 port |-> Display(port)])
    /\ bindAttempts' = Append(bindAttempts, [host |-> "0.0.0.0", port |-> port])
    /\ failure' = "bind"
    /\ pc' = "exited_err"
    /\ UNCHANGED <<env, port, loggerInits, listener,
                   served, lastReq, lastResp>>

\* line 23: bind fails and `?` returns the io::Error from main
BindFail ==
    /\ pc = "bind"
    /\ bindAttempts' = Append(bindAttempts, [host |-> "0.0.0.0", port |-> port])
    /\ failure' = "bind"
    /\ pc' = "exited_err"
    /\ UNCHANGED <<env, port, loggerInits, listener, stdout,
                   served, lastReq, lastResp>>

\* the announcement with the default port written into the text
AnnounceFixedPort ==
    /\ pc = "announce"
    /\ stdout' = Append(stdout, [text |-> "Server running at http://",
                                 host |-> "0.0.0.0",
                                 port |-> <<"8", "0", "8", "0">>])
    /\ pc' = "serving"
    /\ UNCHANGED <<env, port, loggerInits, bindAttempts, listener, failure,
                   served, lastReq, lastResp>>

\* line 27: println!("Server running at http://0.0.0.0:{}", port)
Announce ==
    /\ pc = "announce"
    /\ stdout' = Append(stdout, [text |-> "Server running at http://",
                                 host |-> "0.0.0.0",
                                 port |-> Display(port)])
    /\ pc' = "serving"
    /\ UNCHANGED <<env, port, loggerInits, bindAttempts, listener, failure,
                   served, lastReq, lastResp>>

\* line 28 with lines 19-22 and 31-33: the running server answers a request
HandleRequest ==
    /\ pc = "serving"
    /\ served < MaxRequests
    /\ \E req \in Requests : \E resp \in Responses(req) :
         /\ lastReq' = req
         /\ lastResp' = resp
    /\ served' = served + 1
    /\ UNCHANGED <<env, pc, port, loggerInits, bindAttempts, listener,
                   stdout, failure>>

\* line 28: server.await returns once the server is shut down
Shutdown ==
    /\ pc = "serving"
    /\ pc' = "stopped"
    /\ UNCHANGED <<env, port, loggerInits, bindAttempts, listener, stdout,
                   failure, served, lastReq, lastResp>>

Next ==
    \/ ResolvePort
    \/ InitLogger
    \/ BindOk
    \/ BindFail
    \/ Announce
    \/ HandleRequest
    \/ Shutdown

Spec == Init /\ [][Next]_vars

\* main() runs its startup statements one after another to completion
FairSpec ==
    Spec /\ WF_vars(ResolvePort) /\ WF_vars(InitLogger)
         /\ WF_vars(BindOk \/ BindFail) /\ WF_vars(Announce)

TypeOK ==
    /\ env \in Environments
    /\ pc \in {"start", "logger", "bind", "announce", "serving", "stopped",
               "panicked", "exited_err"}
    /\ port \in {NoPort} \cup 0..U16Max
    /\ loggerInits \in 0..1
    /\ served \in 0..MaxRequests
    /\ failure \in {"none", "config", "logger", "bind"}

\* ------------------------------------------------------------------ claims

\* C1 (as stated): whenever PORT is present with a value that does not parse
\* as a u16, the run ends in the configuration error and never attempts a
\* bind, never holds a listener and never serves a request.
C1_InvalidPortIsFatal ==
    (env.present /\ ~ParseU16(env.value).ok) =>
        /\ bindAttempts = <<>>
        /\ listener = NoListener
        /\ served = 0
        /\ pc # "start" => (pc = "panicked" /\ failure = "config")

\* C2: when PORT is absent the resolved port is 8080, the only bind ever
\* attempted is 0.0.0.0:8080, and the run never ends in the configuration
\* error.
C2_AbsentPortDefaults ==
    ~env.present =>
        /\ failure # "config"
        /\ pc # "start" => port = 8080
        /\ Len(bindAttempts) <= 1
        /\ \A i \in 1..Len(bindAttempts) :
             bindAttempts[i] = [host |-> "0.0.0.0", port |-> 8080]
        /\ listener # NoListener => listener = [host |-> "0.0.0.0", port |-> 8080]

C2_Witness ==
    /\ ~env.present
    /\ bindAttempts = <<[host |-> "0.0.0.0", port |-> 8080]>>
    /\ listener.port = 8080

C4_RootAlwaysHello ==
    (/\ served > 0
     /\ lastReq.method = "GET"
     /\ Head(lastReq.uri) = "/"
     /\ (Len(lastReq.uri) = 1 \/ lastReq.uri[2] = "?")) =>
        /\ lastResp.status = 200
        /\ lastResp.body = "Hello, world!"

C4_Witness ==
    /\ served >= 2
    /\ lastReq.method = "GET"
    /\ lastReq.uri = <<"/", "?", "a=1">>
    /\ lastReq.headers # {}
    /\ lastResp.status = 200
    /\ lastResp.body = "Hello, world!"

\* C5: a failed bind ends the run: no more than one bind is ever attempted,
\* and in a run whose bind failed there is no listener, no request is served
\* and no further step is taken.
C5_BindFailureIsFatal ==
    /\ [](/\ Len(bindAttempts) <= 1
          /\ failure = "bind" =>
               /\ pc = "exited_err"
               /\ Len(bindAttempts) = 1
               /\ listener = NoListener
               /\ served = 0)
    /\ [][failure # "bind"]_vars

C5_Witness ==
    /\ failure = "bind"
    /\ Len(bindAttempts) = 1
    /\ served = 0

\* C6 (as stated): however startup ends, the logger has been initialized
\* exactly once.
C6_LoggerOnceAlways ==
    pc \in {"panicked", "exited_err", "serving", "stopped"} => loggerInits = 1

\* C6 (amended): the logger is never initialized twice; when startup has
\* ended it has been initialized exactly once unless startup ended in the
\* configuration error, in which case it was never initialized.
C6_LoggerOnceUnlessConfigError ==
    /\ loggerInits <= 1
    /\ pc \in {"panicked", "exited_err", "serving", "stopped"} =>
         (IF failure = "config" THEN loggerInits = 0 ELSE loggerInits = 1)

C6_Witness ==
    /\ pc = "exited_err"
    /\ loggerInits = 1

\* C7 (as stated): a run that reaches the serving state has printed exactly
\* one line, and the line names the address the listener is bound to.
C7_AnnouncesBoundAddress ==
    pc \in {"serving", "stopped"} =>
        /\ Len(stdout) = 1
        /\ stdout[1].host = listener.host
        /\ ParseU16(stdout[1].port) = Ok(listener.port)

\* C8: once resolved the port never changes; it is the value parsed from PORT
\* (or from the default), the port every bind is requested on and the port
\* written in the announcement line.
C8_PortFixed ==
    /\ [](port # NoPort =>
            /\ port = ParseU16(IF env.present /\ IsUnicode(env.value)
                                 THEN env.value
                                 ELSE <<"8", "0", "8", "0">>).val
            /\ \A i \in 1..Len(bindAttempts) : bindAttempts[i].port = port
            /\ \A i \in 1..Len(stdout) : ParseU16(stdout[i].port) = Ok(port))
    /\ [][port # NoPort => port' = port]_vars

C8_Witness ==
    /\ port = 6060
    /\ Len(stdout) = 1
    /\ served = 2

\* C9: startup fails in two ways only: the configuration error, which needs a
\* PORT that is present and is not a u16 and leaves no listener behind, and
\* the bind error; a run that ends in neither reaches the serving state.
C9_TwoFailureKinds ==
    /\ [](/\ failure \in {"none", "config", "bind"}
          /\ pc \in {"panicked", "exited_err"} => failure \in {"config", "bind"}
          /\ failure = "config" =>
               /\ env.present
               /\ ~ParseU16(env.value).ok
               /\ pc = "panicked"
               /\ bindAttempts = <<>>
               /\ listener = NoListener
          /\ failure = "bind" => (pc = "exited_err" /\ bindAttempts # <<>>))
    /\ <>(failure \in {"config", "bind"} \/ pc \in {"serving", "stopped"})

C9_Witness ==
    /\ pc = "panicked"
    /\ failure = "config"
    /\ listener = NoListener

\* C10: startup runs in the order port resolution, logger initialization,
\* bind, announcement, serving: a configuration error precedes the logger,
\* a run whose configuration or bind failed never prints the announcement,
\* and no request is served before the bind succeeded.
C10_StartupOrder ==
    /\ [](/\ loggerInits > 0 => port # NoPort
          /\ bindAttempts # <<>> => loggerInits = 1
          /\ listener # NoListener => bindAttempts # <<>>
          /\ stdout # <<>> => listener # NoListener
          /\ served > 0 => (stdout # <<>> /\ listener # NoListener)
          /\ failure = "config" => loggerInits = 0
          /\ failure \in {"config", "bind"} => (stdout = <<>> /\ served = 0))
    /\ [][pc' # pc => <<pc, pc'>> \in
            { <<"start", "logger">>, <<"start", "panicked">>,
              <<"logger", "bind">>, <<"bind", "announce">>,
              <<"bind", "exited_err">>, <<"announce", "serving">>,
              <<"serving", "stopped">> }]_vars

C10_Witness ==
    /\ pc = "serving"
    /\ loggerInits = 1
    /\ Len(stdout) = 1
    /\ served >= 1

====
